---- MODULE Spec2Model ----
(***************************************************************************)
(* A model of readport.py: the reconnecting line reader (TCPClient and     *)
(* listen_device), the transport queue, the processor (process_data with   *)
(* Parser and Buffer) and the shutdown coordination (the shutdown Event    *)
(* and signal_handler).                                                    *)
(*                                                                         *)
(* Bytes are small naturals: NL stands for b"\n", 1..NumPayload for the    *)
(* other byte values.  The byte stream of one connection is `inbuf`: the   *)
(* bytes the device has sent on it that readline() has not returned yet    *)
(* (kernel socket buffer and the BufferedReader of makefile("rb")          *)
(* together; readline() never depends on how the bytes were chunked).      *)
(***************************************************************************)
EXTENDS Integers, Sequences, FiniteSets, TLC

\* ---------------------------------------------------------------- bounds
MaxBytes   == 3      \* bytes the device sends during one run
LiveBytes  == 2      \* the same, in the runs checked for liveness
NumPayload == 1      \* distinct byte values other than the delimiter
QCap       == 2      \* capacity of a bounded queue handed to listen_device
PackLength == 2      \* the configured pack_length
NumGroups  == 2      \* distinct values of the group_by variable given to a Buffer
MaxCalls   == 5      \* calls a direct caller of TCPClient, Buffer or Parser makes
MaxItems   == 3      \* Items put on the queue of a process_data run on its own
PackCalls  == 3      \* calls of Parser.write when pack_length ranges from 1 up

\* ------------------------------------------------------------- constants
NL == 0              \* the delimiter b"\n" that readline() stops at
NoGroup == 0         \* None, the group value of a record without the group_by key

PayloadBytes == 1..NumPayload
Bytes        == {NL} \cup PayloadBytes

VARIABLES
    \* shared between the processes
    shutdown,          \* the shutdown Event
    queue,             \* the transport Queue: a sequence of Items
    maxsize,           \* the maxsize the queue was created with (0: none given)
    \* the coordinator (parse / signal_handler)
    main,              \* "config" | "loaded" | "echo" | "join" | "returned" | "exit"
    \* TCPClient
    sock,              \* self._sock: "None" | "created" | "connected"
    fd,                \* self._fd is set
    fresh,             \* self._fresh: "None" | "True" | "False"
    hasTimeout,        \* self.timeout is not None
    \* the device end of the current connection
    peer,              \* "none" | "open" | "closed" | "reset"
    inbuf,             \* bytes sent on this connection, not yet returned
    budget,            \* bytes the device will still send in this run
    \* listen_device
    rpc,               \* position of the reader
    fresh_connection,  \* local of listen_device
    data,              \* local of listen_device
    clock,             \* time.time()
    \* process_data
    ppc,               \* position of the processor
    item,              \* local of process_data
    buf,               \* Buffer._buf: group value -> (variable -> list)
    files,             \* the saves that succeeded, in order: [group, vectors]
    disk,              \* the destination directory: a set of
                       \* [path, vectors, complete], one per path
    pack_length,       \* Buffer.pack_length
    \* history (observation only, never read by an action's guard)
    received,          \* per connection, the bytes readline() has returned
    readsInEpoch,      \* successful readline() calls on this connection
    enqueued,          \* every Item put on the queue, in order
    firstOfEpoch,      \* per enqueued Item: was it the first read of its connection
    dequeued,          \* every Item got from the queue, in order
    latePuts,          \* puts performed while shutdown was already set
    fullHit,           \* the reader has seen queue.Full
    nsig,              \* signals handled by signal_handler
    lastSig,           \* the last signal handled: "none" | "SIGINT" | "SIGTERM"
    stdout,            \* the bytes written to sys.stdout.buffer (echo mode)
    \* observations of a caller that drives TCPClient, Buffer or Parser
    \* directly (as the tests of the repository do)
    ncalls,            \* calls made so far
    lastCall,          \* the last call: [op, raised, rec]
    accepted           \* group value -> [since, fields, clears, puts]: number
                       \* of puts accepted since the bucket was made or
                       \* cleared, field sets accepted, clears, and the
                       \* records accepted since the last clear, in order

vars == <<shutdown, queue, maxsize, main, sock, fd, fresh, hasTimeout, peer,
          inbuf, budget, rpc, fresh_connection, data, clock, ppc, item, buf,
          files, disk, received, readsInEpoch, enqueued, firstOfEpoch, dequeued,
          latePuts, fullHit, nsig, lastSig, stdout, ncalls, lastCall, accepted,
          pack_length>>

sharedVars == <<shutdown, queue, maxsize>>
clientVars == <<sock, fd, fresh, hasTimeout>>
deviceVars == <<peer, inbuf, budget>>
readerVars == <<rpc, fresh_connection, data, clock>>
procVars   == <<ppc, item, buf, files, disk, pack_length>>
histVars   == <<received, readsInEpoch, enqueued, firstOfEpoch, dequeued,
                latePuts, fullHit, nsig, lastSig, stdout>>
callVars   == <<ncalls, lastCall, accepted>>

NoItem == [data |-> <<>>, timestamp |-> 0, fresh_connection |-> "None"]

NoCall == [op |-> "none", raised |-> FALSE, rec |-> <<>>]

\* ------------------------------------------------------- byte sequences
HasNL(s) == \E i \in 1..Len(s) : s[i] = NL

FirstNL(s) == CHOOSE i \in 1..Len(s) : s[i] = NL /\ \A j \in 1..(i - 1) : s[j] # NL

\* BufferedReader.readline(): up to and including the first delimiter; at
\* end of stream whatever is left (possibly nothing)
readline_data(s) == IF HasNL(s) THEN SubSeq(s, 1, FirstNL(s)) ELSE s

readline_rest(s) == IF HasNL(s) THEN SubSeq(s, FirstNL(s) + 1, Len(s)) ELSE <<>>

\* History of a new connection: a connection on which nothing was read
\* leaves no trace
new_epoch(r) == IF r # <<>> /\ r[Len(r)] = <<>> THEN r ELSE Append(r, <<>>)

\* --------------------------------------------------------------- Init
\* The state when parse() has started both processes and installed the
\* signal handlers.  parse() creates the queue as Queue(), with no maxsize;
\* listen_device takes the queue from its caller, who may hand it a bounded
\* one.  The read timeout is optional in the configuration.
InitCore(n, P) ==
    /\ shutdown = FALSE
    /\ queue = <<>>
    /\ maxsize \in {0, QCap}
    /\ main = "join"
    /\ sock = "None" /\ fd = FALSE /\ fresh = "None"
    /\ hasTimeout \in BOOLEAN
    /\ peer = "none" /\ inbuf = <<>> /\ budget = n
    /\ rpc = "start" /\ fresh_connection = "None" /\ data = <<>> /\ clock = 0
    /\ ppc = "loop" /\ item = NoItem /\ buf = <<>> /\ files = <<>>
    /\ disk = {}
    /\ pack_length \in P
    /\ received = <<>> /\ readsInEpoch = 0
    /\ enqueued = <<>> /\ firstOfEpoch = <<>> /\ dequeued = <<>>
    /\ latePuts = 0 /\ fullHit = FALSE /\ nsig = 0 /\ lastSig = "none"
    /\ stdout = <<>>
    /\ ncalls = 0 /\ lastCall = NoCall /\ accepted = <<>>

InitWith(n) == InitCore(n, {PackLength})

Init == InitWith(MaxBytes)

LiveInit == InitWith(LiveBytes)

\* ----------------------------------------------------------- TCPClient
\* self._fd.close() may raise OSError only when there is a handle to close
FdFail == IF fd THEN BOOLEAN ELSE {FALSE}

\* close() leaves the try block before self._sock.close(): self._fd.close()
\* raised, or self._sock.shutdown(SHUT_RDWR) raised because the socket is
\* not connected (never connected, or reset by the peer)
close_skips(fdFail) ==
    \/ fd /\ fdFail
    \/ sock = "created"
    \/ sock = "connected" /\ peer = "reset"

close_M_nofinally(fdFail) ==
    /\ fd' = (fd /\ fdFail)
    /\ sock' = IF close_skips(fdFail) THEN sock ELSE "None"
    /\ peer' = IF close_skips(fdFail) THEN peer ELSE "none"
    /\ inbuf' = IF close_skips(fdFail) THEN inbuf ELSE <<>>

\* close(): both handles are unset whatever happened in the try block; the
\* connection, and whatever the device had sent on it that was not read,
\* is gone
close(fdFail) ==
    /\ fd' = FALSE
    /\ sock' = "None"
    /\ peer' = "none"
    /\ inbuf' = <<>>

connect_begin_M_keepbuf(fdFail) ==
    /\ fd' = FALSE
    /\ sock' = "created"
    /\ peer' = "none"
    /\ inbuf' = inbuf

\* connect(), up to the retry loop: close(), then a new unconnected socket
connect_begin(fdFail) ==
    /\ fd' = FALSE
    /\ sock' = "created"
    /\ peer' = "none"
    /\ inbuf' = <<>>

connect_loop_M_noflag ==
    /\ rpc = "conn_check"
    /\ rpc' = "conn_try"
    /\ UNCHANGED callVars
    /\ UNCHANGED <<sharedVars, main, clientVars, deviceVars, fresh_connection,
                   data, clock, procVars, histVars>>

\* connect(): the test of the retry loop.  Leaving the loop returns to
\* listen_device without a connection.
connect_loop ==
    /\ rpc = "conn_check"
    /\ rpc' = IF shutdown THEN "loop" ELSE "conn_try"
    /\ UNCHANGED callVars
    /\ UNCHANGED <<sharedVars, main, clientVars, deviceVars, fresh_connection,
                   data, clock, procVars, histVars>>

connect_attempt_M_nofresh ==
    /\ rpc = "conn_try"
    /\ \/ /\ sock' = "connected" /\ fd' = TRUE /\ peer' = "open"
          /\ received' = new_epoch(received)
          /\ readsInEpoch' = 0
          /\ rpc' = "loop"
          /\ UNCHANGED fresh
       \/ /\ rpc' = "conn_check"
          /\ UNCHANGED <<sock, fd, fresh, peer, received, readsInEpoch>>
    /\ UNCHANGED callVars
    /\ UNCHANGED <<sharedVars, main, hasTimeout, inbuf, budget, fresh_connection,
                   data, clock, procVars, enqueued, firstOfEpoch, dequeued,
                   latePuts, fullHit, nsig, lastSig, stdout>>

\* connect(): one self._sock.connect(...).  On success the line-reading
\* handle is made and the connection is marked fresh; on OSError the client
\* sleeps a second and tests the loop again.
connect_attempt ==
    /\ rpc = "conn_try"
    /\ \/ /\ sock' = "connected" /\ fd' = TRUE /\ fresh' = "True" /\ peer' = "open"
          /\ received' = new_epoch(received)
          /\ readsInEpoch' = 0
          /\ rpc' = "loop"
       \/ /\ rpc' = "conn_check"
          /\ UNCHANGED <<sock, fd, fresh, peer, received, readsInEpoch>>
    /\ UNCHANGED callVars
    /\ UNCHANGED <<sharedVars, main, hasTimeout, inbuf, budget, fresh_connection,
                   data, clock, procVars, enqueued, firstOfEpoch, dequeued,
                   latePuts, fullHit, nsig, lastSig, stdout>>

\* readline() can return: a complete line is buffered, or the peer has
\* closed and bytes are left over
readline_returns == fd /\ (HasNL(inbuf) \/ (peer = "closed" /\ inbuf # <<>>))

\* readline() raises: no handle to read from, end of stream with nothing
\* buffered (zero-length read), a reset connection, or the read timeout
\* with no full line
readline_raises ==
    \/ ~fd
    \/ /\ ~HasNL(inbuf)
       /\ \/ peer = "closed" /\ inbuf = <<>>
          \/ peer = "reset"
          \/ peer = "open" /\ hasTimeout

\* ------------------------------------------------------- listen_device
listen_device_start_M_noconnect ==
    /\ rpc = "start"
    /\ rpc' = "loop"
    /\ UNCHANGED callVars
    /\ UNCHANGED <<sharedVars, main, clientVars, deviceVars, fresh_connection,
                   data, clock, procVars, histVars>>

\* with TCPClient(...) as client: client.connect()
listen_device_start ==
    /\ rpc = "start"
    /\ \E fdFail \in FdFail : connect_begin(fdFail)
    /\ rpc' = "conn_check"
    /\ UNCHANGED callVars
    /\ UNCHANGED <<sharedVars, main, fresh, hasTimeout, budget, fresh_connection,
                   data, clock, procVars, histVars>>

listen_device_loop_M_noflag ==
    /\ rpc = "loop"
    /\ fresh_connection' = fresh
    /\ rpc' = "readline"
    /\ UNCHANGED <<sock, fd, peer, inbuf>>
    /\ UNCHANGED callVars
    /\ UNCHANGED <<sharedVars, main, fresh, hasTimeout, budget, data, clock,
                   procVars, histVars>>

\* while not shutdown.is_set(): fresh_connection = client.fresh ...
\* and, when the flag is set, the exit of the with block: client.close()
listen_device_loop ==
    /\ rpc = "loop"
    /\ IF shutdown
       THEN /\ \E fdFail \in FdFail : close(fdFail)
            /\ rpc' = "done"
            /\ UNCHANGED fresh_connection
       ELSE /\ fresh_connection' = fresh
            /\ rpc' = "readline"
            /\ UNCHANGED <<sock, fd, peer, inbuf>>
    /\ UNCHANGED callVars
    /\ UNCHANGED <<sharedVars, main, fresh, hasTimeout, budget, data, clock,
                   procVars, histVars>>

listen_device_readline_M_keepfresh ==
    /\ rpc = "readline"
    /\ \/ /\ readline_returns
          /\ data' = readline_data(inbuf)
          /\ inbuf' = readline_rest(inbuf)
          /\ received' = [received EXCEPT ![Len(received)] = @ \o readline_data(inbuf)]
          /\ readsInEpoch' = readsInEpoch + 1
          /\ rpc' = "put"
          /\ UNCHANGED <<sock, fd, peer, fresh>>
       \/ /\ readline_raises
          /\ \E fdFail \in FdFail : connect_begin(fdFail)
          /\ rpc' = "conn_check"
          /\ UNCHANGED <<fresh, data, received, readsInEpoch>>
    /\ UNCHANGED callVars
    /\ UNCHANGED <<sharedVars, main, hasTimeout, budget, fresh_connection, clock,
                   procVars, enqueued, firstOfEpoch, dequeued, latePuts,
                   fullHit, nsig, lastSig, stdout>>

listen_device_readline_M_retry ==
    /\ rpc = "readline"
    /\ \/ /\ readline_returns
          /\ data' = readline_data(inbuf)
          /\ inbuf' = readline_rest(inbuf)
          /\ fresh' = "False"
          /\ received' = [received EXCEPT ![Len(received)] = @ \o readline_data(inbuf)]
          /\ readsInEpoch' = readsInEpoch + 1
          /\ rpc' = "put"
          /\ UNCHANGED <<sock, fd, peer>>
       \/ /\ readline_raises
          /\ rpc' = "loop"
          /\ UNCHANGED <<sock, fd, peer, inbuf, fresh, data, received, readsInEpoch>>
    /\ UNCHANGED callVars
    /\ UNCHANGED <<sharedVars, main, hasTimeout, budget, fresh_connection, clock,
                   procVars, enqueued, firstOfEpoch, dequeued, latePuts,
                   fullHit, nsig, lastSig, stdout>>

listen_device_readline_M_fatal ==
    /\ rpc = "readline"
    /\ \/ /\ readline_returns
          /\ data' = readline_data(inbuf)
          /\ inbuf' = readline_rest(inbuf)
          /\ fresh' = "False"
          /\ received' = [received EXCEPT ![Len(received)] = @ \o readline_data(inbuf)]
          /\ readsInEpoch' = readsInEpoch + 1
          /\ rpc' = "put"
          /\ UNCHANGED <<sock, fd, peer>>
       \/ /\ readline_raises
          /\ \E fdFail \in FdFail : close(fdFail)
          /\ rpc' = "done"
          /\ UNCHANGED <<fresh, data, received, readsInEpoch>>
    /\ UNCHANGED callVars
    /\ UNCHANGED <<sharedVars, main, hasTimeout, budget, fresh_connection, clock,
                   procVars, enqueued, firstOfEpoch, dequeued, latePuts,
                   fullHit, nsig, lastSig, stdout>>

\* data = client.readline(); on any exception: client.connect(); continue
listen_device_readline ==
    /\ rpc = "readline"
    /\ \/ /\ readline_returns
          /\ data' = readline_data(inbuf)
          /\ inbuf' = readline_rest(inbuf)
          /\ fresh' = "False"
          /\ received' = [received EXCEPT ![Len(received)] = @ \o readline_data(inbuf)]
          /\ readsInEpoch' = readsInEpoch + 1
          /\ rpc' = "put"
          /\ UNCHANGED <<sock, fd, peer>>
       \/ /\ readline_raises
          /\ \E fdFail \in FdFail : connect_begin(fdFail)
          /\ rpc' = "conn_check"
          /\ UNCHANGED <<fresh, data, received, readsInEpoch>>
    /\ UNCHANGED callVars
    /\ UNCHANGED <<sharedVars, main, hasTimeout, budget, fresh_connection, clock,
                   procVars, enqueued, firstOfEpoch, dequeued, latePuts,
                   fullHit, nsig, lastSig, stdout>>

\* queue.put(item, block=False) raises Full
queue_full == maxsize > 0 /\ Len(queue) >= maxsize

listen_device_put_M_nostop ==
    /\ rpc = "put"
    /\ clock' = clock + 1
    /\ IF queue_full
       THEN /\ fullHit' = TRUE
            /\ UNCHANGED <<shutdown, queue, enqueued, firstOfEpoch, latePuts>>
       ELSE /\ queue' = Append(queue, [data |-> data, timestamp |-> clock + 1,
                                       fresh_connection |-> fresh_connection])
            /\ enqueued' = Append(enqueued, [data |-> data, timestamp |-> clock + 1,
                                             fresh_connection |-> fresh_connection])
            /\ firstOfEpoch' = Append(firstOfEpoch, readsInEpoch = 1)
            /\ latePuts' = IF shutdown THEN latePuts + 1 ELSE latePuts
            /\ UNCHANGED <<shutdown, fullHit>>
    /\ rpc' = "loop"
    /\ UNCHANGED callVars
    /\ UNCHANGED <<maxsize, main, clientVars, deviceVars, fresh_connection, data,
                   procVars, received, readsInEpoch, dequeued, nsig, lastSig, stdout>>

listen_device_put_M_noloop ==
    /\ rpc = "put"
    /\ clock' = clock + 1
    /\ IF queue_full
       THEN /\ shutdown' = TRUE
            /\ fullHit' = TRUE
            /\ rpc' = "loop"
            /\ UNCHANGED <<queue, enqueued, firstOfEpoch, latePuts, fresh_connection>>
       ELSE /\ queue' = Append(queue, [data |-> data, timestamp |-> clock + 1,
                                       fresh_connection |-> fresh_connection])
            /\ enqueued' = Append(enqueued, [data |-> data, timestamp |-> clock + 1,
                                             fresh_connection |-> fresh_connection])
            /\ firstOfEpoch' = Append(firstOfEpoch, readsInEpoch = 1)
            /\ latePuts' = IF shutdown THEN latePuts + 1 ELSE latePuts
            /\ fresh_connection' = fresh
            /\ rpc' = "readline"
            /\ UNCHANGED <<shutdown, fullHit>>
    /\ UNCHANGED callVars
    /\ UNCHANGED <<maxsize, main, clientVars, deviceVars, data,
                   procVars, received, readsInEpoch, dequeued, nsig, lastSig, stdout>>

\* timestamp = time.time(); queue.put(Item(...), block=False);
\* except Full: shutdown.set()
listen_device_put ==
    /\ rpc = "put"
    /\ clock' = clock + 1
    /\ IF queue_full
       THEN /\ shutdown' = TRUE
            /\ fullHit' = TRUE
            /\ UNCHANGED <<queue, enqueued, firstOfEpoch, latePuts>>
       ELSE /\ queue' = Append(queue, [data |-> data, timestamp |-> clock + 1,
                                       fresh_connection |-> fresh_connection])
            /\ enqueued' = Append(enqueued, [data |-> data, timestamp |-> clock + 1,
                                             fresh_connection |-> fresh_connection])
            /\ firstOfEpoch' = Append(firstOfEpoch, readsInEpoch = 1)
            /\ latePuts' = IF shutdown THEN latePuts + 1 ELSE latePuts
            /\ UNCHANGED <<shutdown, fullHit>>
    /\ rpc' = "loop"
    /\ UNCHANGED callVars
    /\ UNCHANGED <<maxsize, main, clientVars, deviceVars, fresh_connection, data,
                   procVars, received, readsInEpoch, dequeued, nsig, lastSig, stdout>>

listen_device ==
    \/ listen_device_start
    \/ connect_loop
    \/ connect_attempt
    \/ listen_device_loop
    \/ listen_device_readline
    \/ listen_device_put

\* ---------------------------------------------------------- the device
\* The device end of the connection: it sends a byte, closes, or resets.
DeviceSend ==
    /\ sock = "connected" /\ peer = "open"
    /\ budget > 0
    /\ \E b \in Bytes : inbuf' = Append(inbuf, b)
    /\ budget' = budget - 1
    /\ UNCHANGED callVars
    /\ UNCHANGED <<sharedVars, main, clientVars, peer, readerVars, procVars,
                   histVars>>

DeviceClose ==
    /\ sock = "connected" /\ peer = "open"
    /\ peer' = "closed"
    /\ UNCHANGED callVars
    /\ UNCHANGED <<sharedVars, main, clientVars, inbuf, budget, readerVars,
                   procVars, histVars>>

DeviceReset ==
    /\ sock = "connected" /\ peer = "open"
    /\ peer' = "reset"
    /\ UNCHANGED callVars
    /\ UNCHANGED <<sharedVars, main, clientVars, inbuf, budget, readerVars,
                   procVars, histVars>>

\* -------------------------------------------------------------- Parser
\* The configuration of the run: regex = rb"(?P<level>\w)(?P<rh>\d)?\n",
\* group_by = level:int.  The bytes 1..NumPayload stand for the digits;
\* Letter is a byte \w matches that is not a digit.
GroupBy == "level"

GroupCast == "int"

Letter == NumPayload + 1

WordBytes == PayloadBytes \cup {Letter}

\* A capture group that took no part in the match has the value None in
\* match.groupdict(); a capture that took part is the bytes it matched
\* (never empty for this pattern)
None == <<>>

\* re.match(self.regex, item.data) finds a match: at the start of the data
\* only, and the data may go on after the match
regex_match(d) ==
    /\ Len(d) >= 2
    /\ d[1] \in WordBytes
    /\ \/ d[2] = NL
       \/ Len(d) >= 3 /\ d[2] \in PayloadBytes /\ d[3] = NL

\* match.groupdict() of a matching message
groupdict(d) ==
    [level |-> <<d[1]>>, rh |-> IF d[2] = NL THEN None ELSE <<d[2]>>]

\* The value of float(x): a Python float is told apart from an int
float(x) == [float |-> x]

cast_of_M_allfloat(key) == "float"

\* self._cast: float, except for the group_by variable
cast_of(key) == IF key = GroupBy THEN GroupCast ELSE "float"

\* self._cast[key](value) raises: int() and float() want digits
cast_raises(type, value) ==
    type \in {"int", "float"} /\ \E i \in 1..Len(value) : value[i] \notin PayloadBytes

\* self._cast[key](value) for a capture of one byte
cast(type, value) ==
    CASE type = "int"   -> value[1]
      [] type = "float" -> float(value[1])
      [] type = "str"   -> value

\* The captures that took part in the match
participating(d) == {key \in DOMAIN groupdict(d) : groupdict(d)[key] # None}

extract_raises_M_nocast(it) == ~regex_match(it.data)

\* Parser.extract raises ParseError: no match, or a cast failed
extract_raises(it) ==
    \/ ~regex_match(it.data)
    \/ \E key \in participating(it.data) :
          cast_raises(cast_of(key), groupdict(it.data)[key])

extract_log_M_fresh(it) ==
    IF ~regex_match(it.data) \/ extract_raises(it)
    THEN IF it.fresh_connection = "True" THEN "debug" ELSE "error"
    ELSE "debug"

\* The level of the record Parser.extract logs
extract_log(it) ==
    IF ~regex_match(it.data)
    THEN IF it.fresh_connection = "True" THEN "debug" ELSE "error"
    ELSE IF extract_raises(it) THEN "error" ELSE "debug"

extract_M_all(it) ==
    [key \in DOMAIN groupdict(it.data) \cup {"time"} |->
        IF key = "time" THEN it.timestamp
        ELSE IF groupdict(it.data)[key] = None THEN None
        ELSE cast(cast_of(key), groupdict(it.data)[key])]

\* Parser.extract when it does not raise: the captures that took part,
\* cast, and "time"
extract(it) ==
    [key \in participating(it.data) \cup {"time"} |->
        IF key = "time" THEN it.timestamp
        ELSE cast(cast_of(key), groupdict(it.data)[key])]

\* -------------------------------------------------------------- Buffer
\* extracted.get(self.group_by): None when the record has no such key
group_value(ex) == IF GroupBy \in DOMAIN ex THEN ex[GroupBy] ELSE NoGroup

\* self._buf.get(group_value); an absent bucket and a cleared one are both
\* falsy in `if buf:`
Buffer_get(b, g) == IF g \in DOMAIN b THEN b[g] ELSE <<>>

Buffer_put_ok_M_nofields(b, ex) ==
    LET bk == Buffer_get(b, group_value(ex))
    IN  \/ DOMAIN bk = {}
        \/ /\ "time" \in DOMAIN bk
           /\ Len(bk["time"]) < pack_length

Buffer_put_ok_M_nofull(b, ex) ==
    LET bk == Buffer_get(b, group_value(ex))
    IN  \/ DOMAIN bk = {}
        \/ /\ DOMAIN ex = DOMAIN bk
           /\ "time" \in DOMAIN bk

\* Buffer.put passes its assertions
Buffer_put_ok(b, ex) ==
    LET bk == Buffer_get(b, group_value(ex))
    IN  \/ DOMAIN bk = {}
        \/ /\ DOMAIN ex = DOMAIN bk
           /\ "time" \in DOMAIN bk
           /\ Len(bk["time"]) < pack_length

Buffer_put_M_prepend(b, ex) ==
    LET g   == group_value(ex)
        bk  == Buffer_get(b, g)
        new == [v \in DOMAIN ex |->
                   <<ex[v]>> \o (IF v \in DOMAIN bk THEN bk[v] ELSE <<>>)]
    IN  [h \in DOMAIN b \cup {g} |-> IF h = g THEN new ELSE b[h]]

\* Buffer.put: append every value to the list of its variable
Buffer_put(b, ex) ==
    LET g   == group_value(ex)
        bk  == Buffer_get(b, g)
        new == [v \in DOMAIN ex |->
                   (IF v \in DOMAIN bk THEN bk[v] ELSE <<>>) \o <<ex[v]>>]
    IN  [h \in DOMAIN b \cup {g} |-> IF h = g THEN new ELSE b[h]]

Buffer_full_M_nonempty(b) ==
    {g \in DOMAIN b : /\ "time" \in DOMAIN b[g]
                      /\ Len(b[g]["time"]) > 0}

\* Buffer.full: the groups whose "time" list has pack_length entries
Buffer_full(b) ==
    {g \in DOMAIN b : /\ "time" \in DOMAIN b[g]
                      /\ Len(b[g]["time"]) > 0
                      /\ Len(b[g]["time"]) = pack_length}

Buffer_clear_M_all(b, g) == [h \in DOMAIN b |-> <<>>]

Buffer_clear_M_keeplast(b, g) ==
    [b EXCEPT ![g] = [v \in DOMAIN b[g] |-> <<b[g][v][Len(b[g][v])]>>]]

Buffer_clear_M_noop(b, g) == b

Buffer_clear_M_timeonly(b, g) ==
    [b EXCEPT ![g] = [v \in DOMAIN b[g] |-> IF v = "time" THEN <<>> ELSE b[g][v]]]

\* Buffer.clear
Buffer_clear(b, g) == [b EXCEPT ![g] = <<>>]

\* ------------------------------------------------- the archive files
\* How one save can end: "ok", or an exception raised by mkdir (nothing is
\* created), inside savez_compressed (the temporary file is left partly
\* written) or by rename (the temporary file is left complete)
FlushOutcomes == {"ok", "mkdir", "savez", "rename"}

\* Path(str(self.dest).format(group=group, date=datetime.utcnow())) with the
\* file name load_config builds, "..{group}_{date:%Y-%m-%d_%H-%M-%S}.npz":
\* the path is the group value and the time of the save, to the second
target_path(g, date) == [group |-> g, date |-> date, suffix |-> "npz"]

\* target.with_suffix(".tmp")
with_suffix(p, sfx) == [p EXCEPT !.suffix = sfx]

\* The time of the newest file of the directory
LastDate(dk) ==
    IF dk = {} THEN 0
    ELSE CHOOSE d \in {f.path.date : f \in dk} :
             \A f \in dk : f.path.date <= d

\* datetime.utcnow(), formatted to the second: the clock has or has not
\* moved on to the next second since the newest file was made
FlushDates(dk) == IF dk = {} THEN {1} ELSE {LastDate(dk), LastDate(dk) + 1}

\* tmp_file.open(mode="wb") and what savez_compressed wrote before the file
\* was closed: the file is created or truncated
open_wb(dk, p, vectors, complete) ==
    {f \in dk : f.path # p}
      \cup {[path |-> p, vectors |-> vectors, complete |-> complete]}

\* tmp_file.rename(target): an existing target is replaced
rename(dk, src, dst) ==
    LET f == CHOOSE h \in dk : h.path = src
    IN  {h \in dk : h.path \notin {src, dst}} \cup {[f EXCEPT !.path = dst]}

save_M_direct(dk, g, vectors, date, out) ==
    LET target   == target_path(g, date)
    IN  CASE out = "mkdir"  -> dk
          [] out = "savez"  -> open_wb(dk, target, vectors, FALSE)
          [] out = "rename" -> open_wb(dk, target, vectors, TRUE)
          [] out = "ok"     -> open_wb(dk, target, vectors, TRUE)

\* The try block of Parser.write for one full group
save(dk, g, vectors, date, out) ==
    LET target   == target_path(g, date)
        tmp_file == with_suffix(target, "tmp")
    IN  CASE out = "mkdir"  -> dk
          [] out = "savez"  -> open_wb(dk, tmp_file, vectors, FALSE)
          [] out = "rename" -> open_wb(dk, tmp_file, vectors, TRUE)
          [] out = "ok"     -> rename(open_wb(dk, tmp_file, vectors, TRUE),
                                      tmp_file, target)

RECURSIVE write_full_M_keep(_, _, _, _, _, _)
write_full_M_keep(b, fs, dk, F, out, date) ==
    IF F = {} THEN [buf |-> b, files |-> fs, disk |-> dk]
    ELSE LET g == CHOOSE x \in F : TRUE
         IN  IF out = "ok"
             THEN write_full_M_keep(
                      Buffer_clear(b, g),
                      Append(fs, [group |-> g, vectors |-> b[g],
                                  path |-> target_path(g, date)]),
                      save(dk, g, b[g], date, out), F \ {g}, out, date)
             ELSE [buf |-> b, files |-> fs,
                   disk |-> save(dk, g, b[g], date, out)]

\* Parser.write after the put: every full group is saved and cleared; a
\* failed save clears its group too and raises, which ends the iteration
RECURSIVE write_full(_, _, _, _, _, _)
write_full(b, fs, dk, F, out, date) ==
    IF F = {} THEN [buf |-> b, files |-> fs, disk |-> dk]
    ELSE LET g == CHOOSE x \in F : TRUE
         IN  IF out = "ok"
             THEN write_full(
                      Buffer_clear(b, g),
                      Append(fs, [group |-> g, vectors |-> b[g],
                                  path |-> target_path(g, date)]),
                      save(dk, g, b[g], date, out), F \ {g}, out, date)
             ELSE [buf |-> Buffer_clear(b, g), files |-> fs,
                   disk |-> save(dk, g, b[g], date, out)]

\* -------------------------------------------------------- process_data
\* while not (shutdown.is_set() and queue.empty()): the first operand
process_data_loop ==
    /\ ppc = "loop"
    /\ ppc' = IF shutdown THEN "empty" ELSE "get"
    /\ UNCHANGED callVars
    /\ UNCHANGED <<sharedVars, main, clientVars, deviceVars, readerVars,
                   item, buf, files, disk, pack_length, histVars>>

process_data_empty_M_flush ==
    /\ ppc = "empty"
    /\ IF queue = <<>>
       THEN /\ ppc' = "done"
            /\ IF \E g \in DOMAIN buf : DOMAIN buf[g] # {}
               THEN LET g == CHOOSE x \in DOMAIN buf : DOMAIN buf[x] # {}
                        date == LastDate(disk) + 1
                    IN  /\ files' = Append(files, [group |-> g, vectors |-> buf[g],
                                                   path |-> target_path(g, date)])
                        /\ disk' = save(disk, g, buf[g], date, "ok")
                        /\ buf' = Buffer_clear(buf, g)
               ELSE UNCHANGED <<buf, files, disk>>
       ELSE /\ ppc' = "get"
            /\ UNCHANGED <<buf, files, disk>>
    /\ UNCHANGED callVars
    /\ UNCHANGED <<sharedVars, main, clientVars, deviceVars, readerVars,
                   item, pack_length, histVars>>

\* ... the second operand, evaluated when the flag was seen set
process_data_empty ==
    /\ ppc = "empty"
    /\ ppc' = IF queue = <<>> THEN "done" ELSE "get"
    /\ UNCHANGED callVars
    /\ UNCHANGED <<sharedVars, main, clientVars, deviceVars, readerVars,
                   item, buf, files, disk, pack_length, histVars>>

process_data_get_M_exit ==
    /\ ppc = "get"
    /\ IF queue # <<>>
       THEN /\ item' = Head(queue)
            /\ queue' = Tail(queue)
            /\ dequeued' = Append(dequeued, Head(queue))
            /\ ppc' = "parse"
       ELSE /\ ppc' = "done"
            /\ UNCHANGED <<item, queue, dequeued>>
    /\ UNCHANGED callVars
    /\ UNCHANGED <<shutdown, maxsize, main, clientVars, deviceVars, readerVars,
                   buf, files, disk, pack_length, received, readsInEpoch, enqueued, firstOfEpoch,
                   latePuts, fullHit, nsig, lastSig, stdout>>

\* item = queue.get(timeout=1); except Empty: continue
process_data_get ==
    /\ ppc = "get"
    /\ IF queue # <<>>
       THEN /\ item' = Head(queue)
            /\ queue' = Tail(queue)
            /\ dequeued' = Append(dequeued, Head(queue))
            /\ ppc' = "parse"
       ELSE /\ ppc' = "loop"
            /\ UNCHANGED <<item, queue, dequeued>>
    /\ UNCHANGED callVars
    /\ UNCHANGED <<shutdown, maxsize, main, clientVars, deviceVars, readerVars,
                   buf, files, disk, pack_length, received, readsInEpoch, enqueued, firstOfEpoch,
                   latePuts, fullHit, nsig, lastSig, stdout>>

process_data_parse_M_fatal ==
    /\ ppc = "parse"
    /\ IF ~extract_raises(item) /\ Buffer_put_ok(buf, extract(item))
       THEN \E b1 \in {Buffer_put(buf, extract(item))} :
            \E F \in {Buffer_full(b1)} :
            \E out \in (IF F = {} THEN {"ok"} ELSE FlushOutcomes) :
            \E date \in (IF F = {} THEN {0} ELSE FlushDates(disk)) :
            \E r \in {write_full(b1, files, disk, F, out, date)} :
                /\ buf' = r.buf
                /\ files' = r.files
                /\ disk' = r.disk
                /\ ppc' = IF out = "ok" THEN "loop" ELSE "done"
       ELSE /\ UNCHANGED <<buf, files, disk>>
            /\ ppc' = "done"
    /\ UNCHANGED callVars
    /\ UNCHANGED <<sharedVars, main, clientVars, deviceVars, readerVars,
                   item, pack_length, histVars>>

\* variables = parser.extract(item); parser.write(variables);
\* except ParseError: continue
process_data_parse ==
    /\ ppc = "parse"
    /\ IF ~extract_raises(item) /\ Buffer_put_ok(buf, extract(item))
       THEN \E b1 \in {Buffer_put(buf, extract(item))} :
            \E F \in {Buffer_full(b1)} :
            \E out \in (IF F = {} THEN {"ok"} ELSE FlushOutcomes) :
            \E date \in (IF F = {} THEN {0} ELSE FlushDates(disk)) :
            \E r \in {write_full(b1, files, disk, F, out, date)} :
                /\ buf' = r.buf
                /\ files' = r.files
                /\ disk' = r.disk
       ELSE UNCHANGED <<buf, files, disk>>
    /\ ppc' = "loop"
    /\ UNCHANGED callVars
    /\ UNCHANGED <<sharedVars, main, clientVars, deviceVars, readerVars,
                   item, pack_length, histVars>>

process_data ==
    \/ process_data_loop
    \/ process_data_empty
    \/ process_data_get
    \/ process_data_parse

\* ------------------------------------------------- shutdown coordination
Signals == {"SIGINT", "SIGTERM"}

\* p.terminate() for a process: one that has returned stays as it is
terminate(pc) == IF pc = "done" THEN pc ELSE "killed"

signal_handler_M_always(sig) ==
    /\ main = "join"
    /\ rpc' = terminate(rpc)
    /\ ppc' = terminate(ppc)
    /\ main' = "exit"
    /\ nsig' = nsig + 1
    /\ lastSig' = sig
    /\ UNCHANGED callVars
    /\ UNCHANGED <<sharedVars, clientVars, deviceVars, fresh_connection, data,
                   clock, item, buf, files, disk, pack_length, received, readsInEpoch, enqueued,
                   firstOfEpoch, dequeued, latePuts, fullHit, stdout>>

signal_handler_M_reader_only(sig) ==
    /\ main = "join"
    /\ IF shutdown \/ sig = "SIGTERM"
       THEN /\ rpc' = terminate(rpc)
            /\ main' = "exit"
            /\ UNCHANGED <<shutdown, ppc>>
       ELSE /\ shutdown' = TRUE
            /\ UNCHANGED <<rpc, ppc, main>>
    /\ nsig' = nsig + 1
    /\ lastSig' = sig
    /\ UNCHANGED callVars
    /\ UNCHANGED <<queue, maxsize, clientVars, deviceVars, fresh_connection, data,
                   clock, item, buf, files, disk, pack_length, received, readsInEpoch, enqueued,
                   firstOfEpoch, dequeued, latePuts, fullHit, stdout>>

\* signal_handler(sig, frame), installed by parse() for SIGINT and SIGTERM
signal_handler(sig) ==
    /\ main = "join"
    /\ IF shutdown \/ sig = "SIGTERM"
       THEN /\ rpc' = terminate(rpc)
            /\ ppc' = terminate(ppc)
            /\ main' = "exit"
            /\ UNCHANGED shutdown
       ELSE /\ shutdown' = TRUE
            /\ UNCHANGED <<rpc, ppc, main>>
    /\ nsig' = nsig + 1
    /\ lastSig' = sig
    /\ UNCHANGED callVars
    /\ UNCHANGED <<queue, maxsize, clientVars, deviceVars, fresh_connection, data,
                   clock, item, buf, files, disk, pack_length, received, readsInEpoch, enqueued,
                   firstOfEpoch, dequeued, latePuts, fullHit, stdout>>

Signal == \E sig \in Signals : signal_handler(sig)

\* parse(): p1.join(); p2.join() return once both processes have returned
parse_join ==
    /\ main = "join"
    /\ rpc = "done" /\ ppc = "done"
    /\ main' = "returned"
    /\ UNCHANGED callVars
    /\ UNCHANGED <<sharedVars, clientVars, deviceVars, readerVars, procVars,
                   histVars>>

\* ------------------------------------------------------- specification
Next ==
    \/ listen_device
    \/ process_data
    \/ DeviceSend
    \/ DeviceClose
    \/ DeviceReset
    \/ Signal
    \/ parse_join

Spec == Init /\ [][Next]_vars

\* The two processes are scheduled by the operating system: each keeps
\* taking steps while it has one to take.  The device and the signals are
\* under no obligation.
LiveSpec ==
    LiveInit /\ [][Next]_vars /\ WF_vars(listen_device) /\ WF_vars(process_data)

\* ------------------------------------------- TCPClient, called directly
\* A caller that holds a TCPClient and calls connect(), readline() and
\* close() in any order, while the device sends, closes or resets and the
\* shutdown flag may be set.  The caller is between two calls when rpc is
\* "start" (nothing called yet) or "loop" (connect() has returned).
Idle == rpc \in {"start", "loop"}

Called(op, raised, rec) ==
    /\ ncalls' = ncalls + 1
    /\ lastCall' = [op |-> op, raised |-> raised, rec |-> rec]

\* client.connect()
ClientConnect ==
    /\ Idle /\ ncalls < MaxCalls
    /\ \E fdFail \in FdFail : connect_begin(fdFail)
    /\ rpc' = "conn_check"
    /\ Called("connect", FALSE, <<>>)
    /\ UNCHANGED <<sharedVars, main, fresh, hasTimeout, budget, fresh_connection,
                   data, clock, procVars, histVars, accepted>>

\* client.readline(): returns a line, or raises and leaves the client as
\* it was
ClientReadline ==
    /\ Idle /\ ncalls < MaxCalls
    /\ \/ /\ readline_returns
          /\ data' = readline_data(inbuf)
          /\ inbuf' = readline_rest(inbuf)
          /\ fresh' = "False"
          /\ received' = [received EXCEPT ![Len(received)] = @ \o readline_data(inbuf)]
          /\ readsInEpoch' = readsInEpoch + 1
          /\ Called("readline", FALSE, readline_data(inbuf))
       \/ /\ readline_raises
          /\ Called("readline", TRUE, <<>>)
          /\ UNCHANGED <<data, inbuf, fresh, received, readsInEpoch>>
    /\ UNCHANGED <<sharedVars, main, sock, fd, hasTimeout, peer, budget, rpc,
                   fresh_connection, clock, procVars, enqueued, firstOfEpoch,
                   dequeued, latePuts, fullHit, nsig, lastSig, stdout, accepted>>

\* client.close(); the call is recorded with whether a handle was dropped
\* without being closed
ClientClose ==
    /\ Idle /\ ncalls < MaxCalls
    /\ \E fdFail \in FdFail :
          /\ close(fdFail)
          /\ Called("close", FALSE, [skipped |-> close_skips(fdFail)])
    /\ UNCHANGED <<sharedVars, main, fresh, hasTimeout, budget, readerVars,
                   procVars, histVars, accepted>>

\* shutdown.set(), by whoever holds the Event
shutdown_set ==
    /\ ~shutdown
    /\ shutdown' = TRUE
    /\ UNCHANGED <<queue, maxsize, main, clientVars, deviceVars, readerVars,
                   procVars, histVars, callVars>>

ClientNext ==
    \/ ClientConnect
    \/ connect_loop
    \/ connect_attempt
    \/ ClientReadline
    \/ ClientClose
    \/ shutdown_set
    \/ DeviceSend
    \/ DeviceClose
    \/ DeviceReset

ClientSpec == Init /\ [][ClientNext]_vars

\* ---------------------------------------------- Buffer, called directly
\* The records Parser.extract can return for a pattern whose named groups
\* need not all take part in a match: the group_by variable "level" and a
\* second variable "rh" are each present or absent, "time" always is.
Extracted(t) ==
    {[level |-> g, time |-> t] : g \in 1..NumGroups}
      \cup {[level |-> g, rh |-> float(1), time |-> t] : g \in 1..NumGroups}
      \cup {[rh |-> float(1), time |-> t]}

\* Bookkeeping of the puts a Buffer has accepted, per group value
NoPuts == [since |-> 0, fields |-> {}, clears |-> 0, puts |-> <<>>]

Accept(acc, ex) ==
    LET g   == group_value(ex)
        old == IF g \in DOMAIN acc THEN acc[g] ELSE NoPuts
    IN  [h \in DOMAIN acc \cup {g} |->
           IF h = g THEN [since  |-> old.since + 1,
                          fields |-> old.fields \cup {DOMAIN ex},
                          clears |-> old.clears,
                          puts   |-> Append(old.puts, ex)]
                    ELSE acc[h]]

Cleared(acc, G) ==
    [h \in DOMAIN acc |->
       IF h \in G THEN [since  |-> 0,
                        fields |-> acc[h].fields,
                        clears |-> acc[h].clears + 1,
                        puts   |-> <<>>]
                  ELSE acc[h]]

\* The state of a new Buffer or Parser: pack_length is whatever integer the
\* configuration gave (load_config does not restrict it)
BufInit ==
    /\ InitCore(0, 0..PackLength)
    /\ maxsize = 0
    /\ hasTimeout = FALSE

\* buffer.put(extracted)
BufferPut ==
    /\ ncalls < MaxCalls
    /\ \E ex \in Extracted(ncalls + 1) :
          IF Buffer_put_ok(buf, ex)
          THEN /\ buf' = Buffer_put(buf, ex)
               /\ accepted' = Accept(accepted, ex)
               /\ Called("put", FALSE, ex)
          ELSE /\ Called("put", TRUE, ex)
               /\ UNCHANGED <<buf, accepted>>
    /\ UNCHANGED <<sharedVars, main, clientVars, deviceVars, readerVars, ppc,
                   item, files, disk, pack_length, histVars>>

\* buffer.clear(group_value), for a group the Buffer knows
BufferClear ==
    /\ ncalls < MaxCalls
    /\ \E g \in DOMAIN buf :
          /\ buf' = Buffer_clear(buf, g)
          /\ accepted' = Cleared(accepted, {g})
          /\ Called("clear", FALSE, [group |-> g])
    /\ UNCHANGED <<sharedVars, main, clientVars, deviceVars, readerVars, ppc,
                   item, files, disk, pack_length, histVars>>

\* list(buffer.full()): the iteration is recorded with what it yielded
BufferFull ==
    /\ ncalls < MaxCalls
    /\ Called("full", FALSE, [groups |-> Buffer_full(buf)])
    /\ UNCHANGED <<sharedVars, main, clientVars, deviceVars, readerVars,
                   procVars, histVars, accepted>>

BufNext ==
    \/ BufferPut
    \/ BufferClear
    \/ BufferFull

BufSpec == BufInit /\ [][BufNext]_vars

\* ---------------------------------------------- Parser, called directly
\* parser.write(extracted); the call is recorded with the cause of the
\* ParseError it raised, if any: the AssertionError of Buffer.put, or a
\* failed save
ParserWrite ==
    /\ ncalls < MaxCalls
    /\ \E ex \in Extracted(ncalls + 1) :
          IF Buffer_put_ok(buf, ex)
          THEN \E b1 \in {Buffer_put(buf, ex)} :
               \E F \in {Buffer_full(b1)} :
               \E out \in (IF F = {} THEN {"ok"} ELSE FlushOutcomes) :
               \E date \in (IF F = {} THEN {0} ELSE FlushDates(disk)) :
               \E ok \in {out = "ok"} :
               \E r \in {write_full(b1, files, disk, F, out, date)} :
                   /\ buf' = r.buf
                   /\ files' = r.files
                   /\ disk' = r.disk
                   /\ accepted' = Cleared(Accept(accepted, ex),
                                          {g \in F : b1[g] # r.buf[g]})
                   /\ Called("write", ~ok,
                             [ex |-> ex, cause |-> IF ok THEN "none" ELSE "save",
                              full |-> F, out |-> out, date |-> date])
          ELSE /\ Called("write", TRUE,
                         [ex |-> ex, cause |-> "AssertionError",
                          full |-> {}, out |-> "none", date |-> 0])
               /\ UNCHANGED <<buf, files, disk, accepted>>
    /\ UNCHANGED <<sharedVars, main, clientVars, deviceVars, readerVars, ppc,
                   item, pack_length, histVars>>

ParserNext == ParserWrite

\* A new Parser with the configured pack_length
ParserInit ==
    /\ InitCore(0, {PackLength})
    /\ maxsize = 0
    /\ hasTimeout = FALSE

ParserSpec == ParserInit /\ [][ParserNext]_vars

\* Parser.write called directly, for every pack_length from 1 up
PackInit ==
    /\ InitCore(0, 1..PackLength)
    /\ maxsize = 0
    /\ hasTimeout = FALSE

\* parser.write(extracted), up to PackCalls times
PackWrite == ncalls < PackCalls /\ ParserWrite

PackNext == PackWrite

PackSpec == PackInit /\ [][PackNext]_vars

\* ------------------------------------------- Parser.extract, called directly
\* Every byte sequence of at most n bytes of S
SeqsUpTo(S, n) == UNION {[1..k -> S] : k \in 0..n}

\* The Items handed to extract: any message of at most MaxBytes bytes,
\* digits, the letter and the delimiter, read first or later on its
\* connection
Items(t) ==
    [data : SeqsUpTo(Bytes \cup {Letter}, MaxBytes), timestamp : {t},
     fresh_connection : {"True", "False"}]

\* parser.extract(item); the call is recorded with the record it returned
\* and the level of what it logged
ParserExtract ==
    /\ ncalls < MaxCalls
    /\ \E it \in Items(ncalls + 1) :
          Called("extract", extract_raises(it),
                 [item |-> it, log |-> extract_log(it),
                  extracted |-> IF extract_raises(it) THEN <<>> ELSE extract(it)])
    /\ UNCHANGED <<sharedVars, main, clientVars, deviceVars, readerVars,
                   procVars, histVars, accepted>>

ExtractNext == ParserExtract

ExtractSpec == ParserInit /\ [][ExtractNext]_vars

\* ------------------------------------------ process_data, fed by a queue
\* The messages put on the queue: a level, a level and a humidity, a letter
\* where the level should be, and an empty line
ProcData ==
    {<<l, NL>> : l \in PayloadBytes}
      \cup {<<l, h, NL>> : l \in PayloadBytes, h \in PayloadBytes}
      \cup {<<Letter, NL>>, <<NL>>}

\* queue.put(Item(...)), by whoever holds the queue
queue_put ==
    /\ Len(enqueued) < MaxItems
    /\ \E d \in ProcData :
          LET it == [data |-> d, timestamp |-> Len(enqueued) + 1,
                     fresh_connection |-> "False"]
          IN  /\ queue' = Append(queue, it)
              /\ enqueued' = Append(enqueued, it)
    /\ UNCHANGED <<shutdown, maxsize, main, clientVars, deviceVars, readerVars,
                   procVars, received, readsInEpoch, firstOfEpoch, dequeued,
                   latePuts, fullHit, nsig, lastSig, stdout, callVars>>

ProcNext ==
    \/ queue_put
    \/ shutdown_set
    \/ process_data_loop
    \/ process_data_empty
    \/ process_data_get
    \/ process_data_parse

\* process_data is a process of its own: it keeps running
ProcSpec == ParserInit /\ [][ProcNext]_vars /\ WF_vars(process_data)

\* ------------------------------------------------------------- echo
\* main() has read the command line and found --echo: no process is
\* started, echo runs in the main process with a client without timeout
EchoInit ==
    /\ shutdown = FALSE
    /\ queue = <<>>
    /\ maxsize = 0
    /\ main = "echo"
    /\ sock = "None" /\ fd = FALSE /\ fresh = "None"
    /\ hasTimeout = FALSE
    /\ peer = "none" /\ inbuf = <<>> /\ budget = MaxBytes
    /\ rpc = "start" /\ fresh_connection = "None" /\ data = <<>> /\ clock = 0
    /\ ppc = "unborn" /\ item = NoItem /\ buf = <<>> /\ files = <<>>
    /\ disk = {}
    /\ pack_length = PackLength
    /\ received = <<>> /\ readsInEpoch = 0
    /\ enqueued = <<>> /\ firstOfEpoch = <<>> /\ dequeued = <<>>
    /\ latePuts = 0 /\ fullHit = FALSE /\ nsig = 0 /\ lastSig = "none"
    /\ stdout = <<>>
    /\ ncalls = 0 /\ lastCall = NoCall /\ accepted = <<>>

\* with TCPClient(host, port) as client: client.connect()
echo_start ==
    /\ main = "echo"
    /\ rpc = "start"
    /\ \E fdFail \in FdFail : connect_begin(fdFail)
    /\ rpc' = "conn_check"
    /\ UNCHANGED callVars
    /\ UNCHANGED <<sharedVars, main, fresh, hasTimeout, budget, fresh_connection,
                   data, clock, procVars, histVars>>

echo_readline_M_reconnect ==
    /\ main = "echo"
    /\ rpc = "loop"
    /\ \/ /\ readline_returns
          /\ data' = readline_data(inbuf)
          /\ inbuf' = readline_rest(inbuf)
          /\ fresh' = "False"
          /\ received' = [received EXCEPT ![Len(received)] = @ \o readline_data(inbuf)]
          /\ readsInEpoch' = readsInEpoch + 1
          /\ stdout' = stdout \o readline_data(inbuf)
          /\ UNCHANGED <<sock, fd, peer, rpc>>
       \/ /\ readline_raises
          /\ \E fdFail \in FdFail : connect_begin(fdFail)
          /\ rpc' = "conn_check"
          /\ UNCHANGED <<fresh, data, received, readsInEpoch, stdout>>
    /\ UNCHANGED callVars
    /\ UNCHANGED <<sharedVars, main, hasTimeout, budget, fresh_connection, clock,
                   procVars, enqueued, firstOfEpoch, dequeued, latePuts,
                   fullHit, nsig, lastSig>>

\* One turn of `while True`: data = client.readline(), written to
\* sys.stdout.buffer as it is; on any exception echo returns, and leaving
\* the with block closes the client
echo_readline ==
    /\ main = "echo"
    /\ rpc = "loop"
    /\ \/ /\ readline_returns
          /\ data' = readline_data(inbuf)
          /\ inbuf' = readline_rest(inbuf)
          /\ fresh' = "False"
          /\ received' = [received EXCEPT ![Len(received)] = @ \o readline_data(inbuf)]
          /\ readsInEpoch' = readsInEpoch + 1
          /\ stdout' = stdout \o readline_data(inbuf)
          /\ UNCHANGED <<sock, fd, peer, rpc>>
       \/ /\ readline_raises
          /\ \E fdFail \in FdFail : close(fdFail)
          /\ rpc' = "done"
          /\ UNCHANGED <<fresh, data, received, readsInEpoch, stdout>>
    /\ UNCHANGED callVars
    /\ UNCHANGED <<sharedVars, main, hasTimeout, budget, fresh_connection, clock,
                   procVars, enqueued, firstOfEpoch, dequeued, latePuts,
                   fullHit, nsig, lastSig>>

EchoNext ==
    \/ echo_start
    \/ connect_loop
    \/ connect_attempt
    \/ echo_readline
    \/ shutdown_set
    \/ DeviceSend
    \/ DeviceClose
    \/ DeviceReset

EchoSpec == EchoInit /\ [][EchoNext]_vars

\* ------------------------------------------------------ main, load_config
\* The [parser] section of a configuration file.  The regex option is
\* described by what the steps of load_config make of it: whether
\* literal_eval can read it as a bytes literal, how re.compile ends, the
\* names of its named groups and the number of its unnamed groups.  The
\* group_by option is absent (None) or the parts str.split(":") cuts it
\* into.  `complete` tells whether every other required option is there.
NoOption == <<"None">>

RegexOptions ==
    [literal : BOOLEAN, compile : {"ok", "re.error", "OverflowError"},
     names : SUBSET {"level", "rh", "time"}, unnamed : 0..1]

GroupByOptions ==
    {NoOption}
      \cup {<<by>> : by \in {"level", "zz"}}
      \cup {<<by, dtype>> : by \in {"level", "zz", "time"},
                            dtype \in {"int", "float", "str", "bool", ""}}
      \cup {<<by, dtype, "x">> : by \in {"level"}, dtype \in {"int"}}

Configs == [regex : RegexOptions, group_by : GroupByOptions, complete : BOOLEAN]

\* Group.types
types == {"int", "float", "str"}

\* validate_regex: "ok" or the exception raised.  pattern.groups counts
\* every capture group, pattern.groupindex only the named ones
validate_regex(rx) ==
    IF rx.compile = "re.error" THEN "ConfigurationError"
    ELSE IF rx.compile # "ok" THEN rx.compile
    ELSE IF Cardinality(rx.names) + rx.unnamed # Cardinality(rx.names)
         THEN "ConfigurationError"
    ELSE IF "time" \in rx.names THEN "ConfigurationError"
    ELSE "ok"

\* Group.from_config: by, dtype = group_by.split(":")
Group_from_config(group_by) ==
    IF group_by = NoOption THEN [raised |-> FALSE, by |-> "None", dtype |-> "None"]
    ELSE IF Len(group_by) # 2 THEN [raised |-> TRUE, by |-> "None", dtype |-> "None"]
    ELSE [raised |-> FALSE, by |-> group_by[1], dtype |-> group_by[2]]

\* Group.validate raises ConfigurationError; self.cast is types.get(dtype)
Group_validate_raises(group, variables) ==
    /\ group.by # "None"
    /\ \/ group.by \notin variables
       \/ group.dtype \notin types

\* load_config: "ok" or the exception it raises
load_config(cfg) ==
    IF ~cfg.regex.literal THEN "SyntaxError"
    ELSE IF validate_regex(cfg.regex) # "ok" THEN validate_regex(cfg.regex)
    ELSE IF Group_from_config(cfg.group_by).raised THEN "ConfigurationError"
    ELSE IF Group_validate_raises(Group_from_config(cfg.group_by), cfg.regex.names)
         THEN "ConfigurationError"
    ELSE IF ~cfg.complete THEN "NoOptionError"
    ELSE "ok"

\* main() has read the command line and no process exists yet
ConfigInit ==
    /\ shutdown = FALSE
    /\ queue = <<>>
    /\ maxsize = 0
    /\ main = "config"
    /\ sock = "None" /\ fd = FALSE /\ fresh = "None"
    /\ hasTimeout \in BOOLEAN
    /\ peer = "none" /\ inbuf = <<>> /\ budget = 0
    /\ rpc = "unborn" /\ fresh_connection = "None" /\ data = <<>> /\ clock = 0
    /\ ppc = "unborn" /\ item = NoItem /\ buf = <<>> /\ files = <<>>
    /\ disk = {}
    /\ pack_length = PackLength
    /\ received = <<>> /\ readsInEpoch = 0
    /\ enqueued = <<>> /\ firstOfEpoch = <<>> /\ dequeued = <<>>
    /\ latePuts = 0 /\ fullHit = FALSE /\ nsig = 0 /\ lastSig = "none"
    /\ stdout = <<>>
    /\ ncalls = 0 /\ lastCall = NoCall /\ accepted = <<>>

\* main: conf = load_config(f); except Exception: sys.exit(1)
main_load_config ==
    /\ main = "config"
    /\ \E cfg \in Configs :
          /\ Called("load_config", load_config(cfg) # "ok",
                    [config |-> cfg, exc |-> load_config(cfg)])
          /\ main' = IF load_config(cfg) = "ok" THEN "loaded" ELSE "exit"
    /\ UNCHANGED <<sharedVars, clientVars, deviceVars, readerVars, procVars,
                   histVars, accepted>>

\* main: parse(conf) starts the two processes and waits for them
main_parse ==
    /\ main = "loaded"
    /\ main' = "join"
    /\ rpc' = "start"
    /\ ppc' = "loop"
    /\ UNCHANGED <<sharedVars, clientVars, deviceVars, fresh_connection, data,
                   clock, item, buf, files, disk, pack_length, histVars,
                   callVars>>

ConfigNext ==
    \/ main_load_config
    \/ main_parse

ConfigSpec == ConfigInit /\ [][ConfigNext]_vars

TypeOK ==
    /\ shutdown \in BOOLEAN
    /\ maxsize \in {0, QCap}
    /\ main \in {"config", "loaded", "echo", "join", "returned", "exit"}
    /\ sock \in {"None", "created", "connected"}
    /\ fd \in BOOLEAN
    /\ fresh \in {"None", "True", "False"}
    /\ peer \in {"none", "open", "closed", "reset"}
    /\ budget \in 0..MaxBytes
    /\ rpc \in {"unborn", "start", "conn_check", "conn_try", "loop", "readline",
                "put", "done", "killed"}
    /\ ppc \in {"unborn", "loop", "empty", "get", "parse", "done", "killed"}
    /\ nsig \in 0..2
    /\ lastSig \in {"none"} \cup Signals
    /\ ncalls \in 0..MaxCalls
    /\ lastCall.op \in {"none", "connect", "readline", "close", "put", "clear",
                        "full", "write", "extract", "load_config"}
    /\ pack_length \in 0..PackLength
    /\ \A f \in disk : f.path.suffix \in {"npz", "tmp"} /\ f.complete \in BOOLEAN

\* ------------------------------------------------- reading the histories
IsPrefix(a, b) == Len(a) <= Len(b) /\ SubSeq(b, 1, Len(a)) = a

Payloads(items) == [i \in 1..Len(items) |-> items[i].data]

\* The delimiter-terminated messages of a byte sequence, in order; bytes
\* after the last delimiter belong to no message
RECURSIVE Split(_, _)
Split(s, cur) ==
    IF s = <<>> THEN <<>>
    ELSE IF Head(s) = NL
         THEN <<Append(cur, NL)>> \o Split(Tail(s), <<>>)
         ELSE Split(Tail(s), Append(cur, Head(s)))

RECURSIVE Messages(_)
Messages(epochs) ==
    IF epochs = <<>> THEN <<>>
    ELSE Split(Head(epochs), <<>>) \o Messages(Tail(epochs))

Stopped(pc) == pc \in {"done", "killed"}

InConnect == rpc \in {"conn_check", "conn_try"}

PartialBucket == \E g \in DOMAIN buf : DOMAIN buf[g] # {}

\* A step in which a direct caller made the call `op`
IsCall(op) == ncalls' # ncalls /\ lastCall'.op = op

\* The record a put or a write was called with
CallRec(c) == IF c.op = "write" THEN c.rec.ex ELSE c.rec

\* The bucket a record is routed to, and the length of its "time" list
BucketOf(b, ex) == Buffer_get(b, group_value(ex))

TimeLen(bk) == IF "time" \in DOMAIN bk THEN Len(bk["time"]) ELSE 0

\* The record's field set differs from that of its non-empty bucket
Mismatch(b, ex) == DOMAIN BucketOf(b, ex) # {} /\ DOMAIN ex # DOMAIN BucketOf(b, ex)

\* ------------------------------------------------------------------ C1
\* C1: under graceful shutdown every record the reader has put on the queue
\* has been dequeued by the processor when process_data has returned.
C1_NoRecordLeftBehind == (ppc = "done") => (dequeued = enqueued)

\* ------------------------------------------------------------------ C2
\* C2 (as claimed): once the shutdown flag is set the reader performs no
\* queue.put at all.
C2_NoPutAfterShutdown == latePuts = 0

\* C2 (amended): once the shutdown flag is set the reader starts no new
\* read; only the iteration that had passed the loop test before the flag
\* was set can still enqueue, so at most one record is put afterwards.
C2_NoNewReadAfterShutdown ==
    /\ [][shutdown => (rpc' \in {"readline", "put"} => rpc \in {"readline", "put"})]_vars
    /\ [](latePuts <= 1)

C2_Witness == latePuts = 1 /\ rpc = "done"

\* ------------------------------------------------------------------ C3
\* C3: when a non-blocking put finds the queue at capacity, the shutdown
\* flag is set and the reader does no further readline, connect or put
\* before it terminates.
C3_FullStopsReader == fullHit => (shutdown /\ rpc \in {"loop", "done", "killed"})

C3_Witness == fullHit /\ rpc = "done" /\ Len(queue) = maxsize

\* ------------------------------------------------------------------ C4
\* C4: the queue the pipeline creates is bounded: it never holds more
\* records than the capacity at which the admission failure fires.
C4_QueueBounded == Len(queue) <= QCap

C6_SecondSignalTerminates ==
    /\ [][(nsig' # nsig /\ shutdown) =>
            (Stopped(rpc') /\ Stopped(ppc') /\ main' = "exit")]_vars
    /\ [][main = "exit" =>
            UNCHANGED <<rpc, ppc, queue, enqueued, dequeued, buf, files>>]_vars

C6_Witness == /\ main = "exit" /\ nsig = 2 /\ lastSig = "SIGINT"
              /\ rpc = "killed" /\ ppc = "killed"
              /\ queue # <<>> /\ PartialBucket

\* ------------------------------------------------------------------ C7
\* C7: if the shutdown flag is set while the reader is in the connect retry
\* loop or in a read bounded by a timeout, the reader eventually terminates
\* and starts no connection attempt on the way (an attempt already inside
\* sock.connect may still complete), and the processor eventually
\* terminates, leaving its loop only on an empty queue.
C7_GracefulTermination ==
    /\ (shutdown /\ (InConnect \/ (rpc = "readline" /\ hasTimeout)))
          ~> (Stopped(rpc) /\ Stopped(ppc))
    /\ [][shutdown => (rpc' = "conn_try" => rpc = "conn_try")]_vars
    /\ [][(ppc' = "done" /\ ppc # "done") => queue = <<>>]_vars

C7_Witness == /\ shutdown /\ hasTimeout /\ rpc = "readline" /\ ~HasNL(inbuf)
              /\ nsig = 1 /\ ~fullHit /\ queue # <<>> /\ main = "join"

C9_FreshOnlyFirst ==
    \A i \in 1..Len(enqueued) :
        enqueued[i].fresh_connection = (IF firstOfEpoch[i] THEN "True" ELSE "False")

C9_Witness ==
    /\ Len(enqueued) >= 3
    /\ firstOfEpoch[1] /\ ~firstOfEpoch[2] /\ firstOfEpoch[3]

\* ----------------------------------------------------------------- C10
\* C10: the payloads dequeued are, in order and without repetition, the
\* delimiter-terminated messages of the byte stream the reader received.
C10_Ordering == IsPrefix(Payloads(dequeued), Messages(received))

\* ----------------------------------------------------------------- C11
\* C11: every record enqueued is a complete message: its data ends with
\* the delimiter.
C11_OnlyCompleteMessages ==
    \A i \in 1..Len(enqueued) :
        /\ enqueued[i].data # <<>>
        /\ enqueued[i].data[Len(enqueued[i].data)] = NL

\* ----------------------------------------------------------------- C12
\* C12: a failed connect attempt or a failed readline leaves the shutdown
\* flag as it was and sends the reader back into the connect loop on a new
\* socket; the flag is set only by a signal or by a full queue, and
\* listen_device returns only when the flag is set.
C12_ErrorsNotFatal ==
    /\ [][(rpc \in {"conn_try", "readline"} /\ rpc' = "conn_check") =>
            (shutdown' = shutdown /\ sock' = "created" /\ ~fd')]_vars
    /\ [][(~shutdown /\ shutdown') => (nsig' # nsig \/ (fullHit' /\ ~fullHit))]_vars
    /\ [][(rpc' = "done" /\ rpc # "done") => shutdown]_vars

\* a record read on a second connection, after a failed readline on the
\* first, has been enqueued while the flag is still unset
C12_Witness ==
    /\ Len(received) = 2 /\ received[2] # <<>>
    /\ Len(enqueued) >= 2 /\ firstOfEpoch[Len(enqueued)]
    /\ ~shutdown /\ rpc = "loop"

\* ----------------------------------------------------------------- C13
\* C13: close() can be called whenever the caller is between two calls; it
\* does not raise and leaves both handles unset; a second close() right
\* after a first one changes nothing.
C13_CloseIdempotentTotal ==
    /\ [][(ncalls' # ncalls /\ lastCall'.op = "close") =>
            (~lastCall'.raised /\ ~fd' /\ sock' = "None")]_vars
    /\ [][(ncalls' # ncalls /\ lastCall'.op = "close" /\ lastCall.op = "close") =>
            UNCHANGED <<clientVars, deviceVars, sharedVars>>]_vars
    /\ []((Idle /\ ncalls < MaxCalls) => ENABLED ClientClose)

\* close() called twice in a row on a client that had a connection
C13_Witness ==
    /\ lastCall.op = "close" /\ ncalls >= 3
    /\ fresh # "None" /\ sock = "None" /\ ~fd /\ rpc = "loop"

\* ----------------------------------------------------------------- C14
\* C14: no call of close() drops a handle the client had opened without
\* closing it.
C14_AllHandlesClosed == (lastCall.op = "close") => ~lastCall.rec.skipped

\* ----------------------------------------------------------------- C15
\* C15: a put (Buffer.put, or the put inside Parser.write) of a record
\* whose field set differs from that of its non-empty bucket raises, and
\* no bucket and no file is changed by the call.
C15_MismatchRejected ==
    [][((IsCall("put") \/ IsCall("write")) /\ Mismatch(buf, CallRec(lastCall'))) =>
         /\ lastCall'.raised
         /\ lastCall'.op = "write" => lastCall'.rec.cause = "AssertionError"
         /\ buf' = buf /\ files' = files]_vars

\* the put was refused for its field set alone: the bucket was not full
C15_Witness ==
    /\ lastCall.op = "put" /\ lastCall.raised
    /\ Mismatch(buf, lastCall.rec)
    /\ TimeLen(BucketOf(buf, lastCall.rec)) < pack_length

\* ----------------------------------------------------------------- C16
\* C16: all records ever accepted for one group value, before and after
\* the bucket was cleared by a flush, have one and the same field set.
C16_OneFieldSetPerGroup ==
    \A g \in DOMAIN accepted : Cardinality(accepted[g].fields) <= 1

\* ----------------------------------------------------------------- C17
\* C17: with pack_length >= 1, a group is yielded by full() exactly when
\* pack_length puts for it have been accepted since its bucket was made
\* or last cleared; an iteration of full() yields exactly those groups.
C17_FullExactlyAtPackLength ==
    pack_length >= 1 =>
        /\ \A g \in DOMAIN buf :
              (g \in Buffer_full(buf)) <=> (accepted[g].since = pack_length)
        /\ lastCall.op = "full" =>
              lastCall.rec.groups =
                  {g \in DOMAIN accepted : accepted[g].since = pack_length}

\* a group that is ready for the second time, after a clear
C17_Witness ==
    /\ pack_length = PackLength
    /\ \E g \in DOMAIN buf :
          g \in Buffer_full(buf) /\ accepted[g].clears >= 1

\* ----------------------------------------------------------------- C18
\* C18: put changes only the bucket of the record's group value, clear(k)
\* empties the bucket of k and changes no other bucket, and iterating
\* full() changes no bucket.
C18_Frame ==
    /\ [][IsCall("put") =>
            \A g \in DOMAIN buf :
                g # group_value(lastCall'.rec) =>
                    (g \in DOMAIN buf' /\ buf'[g] = buf[g])]_vars
    /\ [][IsCall("clear") =>
            /\ DOMAIN buf' = DOMAIN buf
            /\ \A g \in DOMAIN buf :
                  IF g = lastCall'.rec.group THEN DOMAIN buf'[g] = {}
                                             ELSE buf'[g] = buf[g]]_vars
    /\ [][IsCall("full") => buf' = buf]_vars

\* two puts for one group made it ready; a put for another group left it
\* so, and the other group is not ready
C18_Witness ==
    /\ lastCall.op = "put" /\ ~lastCall.raised /\ pack_length = PackLength
    /\ \E a \in DOMAIN buf :
          /\ a # group_value(lastCall.rec)
          /\ Buffer_full(buf) = {a}
          /\ accepted[a].since = pack_length

\* ----------------------------------------------------------------- C19
\* C19 (as claimed): a put on a bucket whose "time" list already has
\* pack_length entries raises and leaves the buckets unchanged, and no
\* list of any bucket is ever longer than pack_length.
C19_FullPutRejected ==
    /\ [][(IsCall("put") /\ "time" \in DOMAIN BucketOf(buf, lastCall'.rec)
                         /\ TimeLen(BucketOf(buf, lastCall'.rec)) = pack_length) =>
            (lastCall'.raised /\ buf' = buf)]_vars
    /\ [](\A g \in DOMAIN buf : \A v \in DOMAIN buf[g] : Len(buf[g][v]) <= pack_length)

\* C19 (amended): the same for a Buffer made with pack_length >= 1; with
\* pack_length < 1 the first put into an empty bucket is accepted without
\* the length test, and its lists are then longer than pack_length.
C19_FullPutRejectedPositive ==
    /\ [][(pack_length >= 1 /\ IsCall("put")
                            /\ TimeLen(BucketOf(buf, lastCall'.rec)) = pack_length) =>
            (lastCall'.raised /\ buf' = buf)]_vars
    /\ [](pack_length >= 1 =>
            \A g \in DOMAIN buf : \A v \in DOMAIN buf[g] : Len(buf[g][v]) <= pack_length)

\* a put with the right field set was refused because the bucket is full
C19_Witness ==
    /\ lastCall.op = "put" /\ lastCall.raised /\ pack_length = PackLength
    /\ ~Mismatch(buf, lastCall.rec)
    /\ TimeLen(BucketOf(buf, lastCall.rec)) = pack_length

\* ----------------------------------------------------------------- C20
\* C20: when the put of Parser.write brings a bucket to pack_length, that
\* bucket is empty after the call and every other bucket is as after the
\* put; if the save succeeded the batch is the newest file, if it failed
\* the call raises ParseError and no file is added.
C20_FlushAlwaysClears ==
    [][(IsCall("write") /\ lastCall'.rec.cause # "AssertionError"
          /\ TimeLen(BucketOf(buf, lastCall'.rec.ex)) + 1 = pack_length) =>
         LET ex == lastCall'.rec.ex
             k  == group_value(ex)
         IN  /\ k \in DOMAIN buf' /\ DOMAIN buf'[k] = {}
             /\ \A g \in DOMAIN buf : g # k => (g \in DOMAIN buf' /\ buf'[g] = buf[g])
             /\ IF lastCall'.rec.cause = "save"
                THEN lastCall'.raised /\ files' = files
                ELSE /\ ~lastCall'.raised
                     /\ Len(files') = Len(files) + 1
                     /\ SubSeq(files', 1, Len(files)) = files
                     /\ files'[Len(files')].group = k
                     /\ TimeLen(files'[Len(files')].vectors) = pack_length]_vars

\* a save failed: its bucket is empty, nothing was written, and a record
\* of another group is still buffered
C20_Witness ==
    /\ lastCall.op = "write" /\ lastCall.raised /\ lastCall.rec.cause = "save"
    /\ pack_length = PackLength /\ files = <<>>
    /\ DOMAIN BucketOf(buf, lastCall.rec.ex) = {}
    /\ \E g \in DOMAIN buf : DOMAIN buf[g] # {}

\* ----------------------------------------------------------------- C21
\* The files of the directory under a final (.npz) name
Archives(dk) == {f \in dk : f.path.suffix = "npz"}

\* The file holds one complete batch: written to the end, every variable
\* with pack_length values
CompleteBatch(f) ==
    /\ f.complete
    /\ "time" \in DOMAIN f.vectors
    /\ \A v \in DOMAIN f.vectors : Len(f.vectors[v]) = pack_length

\* C21: in every reachable state, whatever step of a save failed, a file
\* under a final name holds one complete batch, and a partly written file
\* only ever has the temporary name.
C21_AtomicPersistence ==
    /\ \A f \in Archives(disk) : CompleteBatch(f)
    /\ \A f \in disk : ~f.complete => f.path.suffix = "tmp"

\* a save has failed inside savez_compressed next to an archive of an
\* earlier save: the partly written file is there under the temporary name
C21_Witness ==
    /\ lastCall.op = "write" /\ lastCall.rec.out = "savez"
    /\ Archives(disk) # {}
    /\ \E f \in disk : ~f.complete /\ f.path.suffix = "tmp"

\* ----------------------------------------------------------------- C22
\* C22: there are as many archive files as saves that succeeded, and no
\* two successful saves resolved to the same path.
C22_OneFilePerFlush ==
    /\ Cardinality(Archives(disk)) = Len(files)
    /\ \A i, j \in 1..Len(files) : i # j => files[i].path # files[j].path

\* ----------------------------------------------------------------- C23
\* The vectors a batch of records is saved as: per variable, the values in
\* the order of the records
Vectors(recs) ==
    IF recs = <<>> THEN <<>>
    ELSE [v \in DOMAIN recs[1] |-> [i \in 1..Len(recs) |-> recs[i][v]]]

\* C23: the file a successful save makes holds, for every variable of the
\* bucket and for "time", exactly the values put for that group since its
\* last clear, in the order of the puts, pack_length of each; and every
\* archive file has pack_length values of every variable.
C23_ArchiveHoldsThePuts ==
    /\ [](\A f \in Archives(disk) :
             \A v \in DOMAIN f.vectors : Len(f.vectors[v]) = pack_length)
    /\ [][(IsCall("write") /\ ~lastCall'.raised /\ lastCall'.rec.full # {}) =>
           LET ex   == lastCall'.rec.ex
               k    == group_value(ex)
               recs == Append(accepted[k].puts, ex)
               p    == target_path(k, lastCall'.rec.date)
           IN  /\ Len(recs) = pack_length
               /\ \A i \in 1..Len(recs) : DOMAIN recs[i] = DOMAIN ex
               /\ "time" \in DOMAIN ex
               /\ \E f \in disk' :
                     /\ f.path = p
                     /\ f.complete
                     /\ f.vectors = Vectors(recs)]_vars

\* two batches of one group have been saved, the second with records that
\* came after the clear
C23_Witness ==
    /\ lastCall.op = "write" /\ ~lastCall.raised /\ lastCall.rec.full # {}
    /\ Len(files) = 2
    /\ files[1].group = files[2].group
    /\ files[1].vectors # files[2].vectors

\* ----------------------------------------------------------------- C24
\* The places where a timestamp stands in the archives saved so far
Written(t) ==
    {ij \in (1..Len(files)) \X (1..PackLength) :
        /\ ij[2] <= Len(files[ij[1]].vectors["time"])
        /\ files[ij[1]].vectors["time"][ij[2]] = t}

\* C24: every record taken from the queue has its values in at most one
\* archive, once: no save writes what an earlier save wrote.
C24_AtMostOnce ==
    \A i \in 1..Len(dequeued) : Cardinality(Written(dequeued[i].timestamp)) <= 1

\* an archive has been saved and the next record of its group is in the
\* bucket that was cleared
C24_Witness ==
    /\ Len(files) = 1
    /\ Len(dequeued) = MaxItems
    /\ \E g \in DOMAIN buf :
          /\ g = files[1].group
          /\ TimeLen(buf[g]) = 1
          /\ Written(buf[g]["time"][1]) = {}

\* ----------------------------------------------------------------- C25
\* The message does not match the pattern
NoMatch(d) == ~regex_match(d)

\* The message matches and its level is not a number
CastError(d) == regex_match(d) /\ d[1] \notin PayloadBytes

\* C25: when the processor handles a record that does not match, or whose
\* level cannot be converted, the buckets, the saved archives and the
\* directory are as before, and the processor goes on to the next turn of
\* its loop.
C25_FailedExtractIsDropped ==
    [][(ppc = "parse" /\ ppc' # ppc
          /\ (NoMatch(item.data) \/ CastError(item.data))) =>
         /\ buf' = buf
         /\ files' = files
         /\ disk' = disk
         /\ ppc' = "loop"]_vars

\* a record whose level is a letter has been dropped while a record of
\* an earlier message waits in its bucket
C25_Witness ==
    /\ ppc = "loop" /\ Len(dequeued) >= 2
    /\ item = dequeued[Len(dequeued)]
    /\ CastError(item.data)
    /\ \E g \in DOMAIN buf : TimeLen(buf[g]) = 1

\* ----------------------------------------------------------------- C29
\* The step of the processor that handles a record fails: no match, a cast
\* error, a field set other than the bucket's (or a full bucket), or a
\* save that did not succeed
RecordFails ==
    /\ ppc = "parse" /\ ppc' # ppc
    /\ IF NoMatch(item.data) \/ CastError(item.data) THEN TRUE
       ELSE IF ~Buffer_put_ok(buf, extract(item)) THEN TRUE
       ELSE /\ Buffer_full(Buffer_put(buf, extract(item))) # {}
            /\ files' = files

\* C29: a record that fails leaves the shutdown flag, the queue and the
\* coordinator alone and the processor in its loop; and whenever a record
\* is being handled while another one is queued, the queued one is taken
\* and handled in its turn.
C29_RecordFailuresNotFatal ==
    /\ [][RecordFails =>
            /\ shutdown' = shutdown
            /\ queue' = queue
            /\ main' = main
            /\ ppc' = "loop"]_vars
    /\ \A k \in 1..MaxItems :
          (ppc = "parse" /\ Len(dequeued) = k /\ queue # <<>>)
             ~> (ppc = "parse" /\ Len(dequeued) = k + 1
                   /\ item = dequeued[k + 1])

\* the processor is back in its loop after a save that failed, and
\* nobody has set the flag
C29_Witness ==
    /\ ppc = "loop" /\ ~shutdown
    /\ Len(dequeued) = PackLength
    /\ files = <<>>
    /\ \E f \in disk : ~f.complete
    /\ \E g \in DOMAIN buf : DOMAIN buf[g] = {}

\* ----------------------------------------------------------------- C26
\* The last call was parser.extract(item) with a message for which P holds
Extracting(P(_)) == lastCall.op = "extract" /\ P(lastCall.rec.item.data)

\* C26: extract raises ParseError for a message that does not match and
\* logs it at debug level exactly when the Item is the first of its
\* connection, at error level otherwise; for a message that matches with a
\* level that is not a number it raises ParseError and logs at error
\* level, first of its connection or not.
C26_SeverityOfFailures ==
    /\ Extracting(NoMatch) =>
          /\ lastCall.raised
          /\ lastCall.rec.log \in {"debug", "error"}
          /\ lastCall.rec.log = "debug"
                <=> lastCall.rec.item.fresh_connection = "True"
    /\ Extracting(CastError) =>
          /\ lastCall.raised
          /\ lastCall.rec.log = "error"

\* the first message of a connection matched, its level was a letter, and
\* the failure was logged as an error
C26_Witness ==
    /\ Extracting(CastError)
    /\ lastCall.rec.item.fresh_connection = "True"
    /\ lastCall.raised
    /\ lastCall.rec.log = "error"

\* ----------------------------------------------------------------- C27
\* The capture names the pattern declares
CaptureNames == {"level", "rh"}

\* The Python type of a value a capture was converted to, told by the way
\* the value is written
TypeOf(x) ==
    IF ToString(x) \in {ToString(n) : n \in WordBytes} THEN "int"
    ELSE IF ToString(x) \in {ToString(float(n)) : n \in WordBytes} THEN "float"
    ELSE "bytes"

\* C27 as stated: for every message that matches, extract returns a record
\* whose fields are all the declared capture names and "time".
C27_AllDeclaredNames ==
    Extracting(regex_match) =>
       /\ ~lastCall.raised
       /\ DOMAIN lastCall.rec.extracted = CaptureNames \cup {"time"}

\* The message matches and every capture that took part can be converted
Convertible(d) == regex_match(d) /\ d[1] \in PayloadBytes

\* C27, amended: for every message that matches and whose captures can all
\* be converted, extract returns a record whose fields are the capture
\* names that took part in the match and "time"; the group key has its
\* declared type, every other capture is a float, each with the value of
\* the bytes captured, and "time" is the timestamp of the Item.
C27_ParticipatingNamesTyped ==
    Extracting(Convertible) =>
       LET d  == lastCall.rec.item.data
           ex == lastCall.rec.extracted
       IN  /\ ~lastCall.raised
           /\ DOMAIN ex = {"level", "time"}
                            \cup (IF d[2] # NL THEN {"rh"} ELSE {})
           /\ TypeOf(ex["level"]) = "int" /\ ex["level"] = d[1]
           /\ "rh" \in DOMAIN ex =>
                 (TypeOf(ex["rh"]) = "float" /\ ex["rh"] = float(d[2]))
           /\ ex["time"] = lastCall.rec.item.timestamp

\* a message with a level and a humidity has been extracted
C27_Witness ==
    /\ Extracting(Convertible)
    /\ ~lastCall.raised
    /\ DOMAIN lastCall.rec.extracted = CaptureNames \cup {"time"}

\* ----------------------------------------------------------------- C28
\* The message matches with a level that is a number and without the
\* optional humidity
WithoutHumidity(d) == Convertible(d) /\ d[2] = NL

\* C28: when a capture group takes no part in the match, extract does not
\* fail and the record has no field of that name: its fields are the
\* captures that took part and "time".
C28_NonParticipatingAbsent ==
    Extracting(WithoutHumidity) =>
       /\ ~lastCall.raised
       /\ "rh" \notin DOMAIN lastCall.rec.extracted
       /\ DOMAIN lastCall.rec.extracted = {"level", "time"}

\* a message without the humidity has been extracted without it
C28_Witness ==
    /\ Extracting(WithoutHumidity)
    /\ ~lastCall.raised
    /\ DOMAIN lastCall.rec.extracted = {"level", "time"}
    /\ lastCall.rec.extracted["level"] = lastCall.rec.item.data[1]

\* ----------------------------------------------------------------- C30
\* The configuration has a pattern that does not compile, an unnamed
\* capture group, a capture named "time", or a group key that is not a
\* capture name or has no type among int, float, str
Invalid(cfg) ==
    \/ cfg.regex.compile # "ok"
    \/ cfg.regex.unnamed > 0
    \/ "time" \in cfg.regex.names
    \/ /\ cfg.group_by # NoOption
       /\ ~(/\ Len(cfg.group_by) = 2
            /\ cfg.group_by[1] \in cfg.regex.names
            /\ cfg.group_by[2] \in {"int", "float", "str"})

\* C30: for a configuration whose pattern is readable and that is invalid
\* in one of these ways, load_config raises ConfigurationError and neither
\* process is ever started.
C30_InvalidConfigRejected ==
    (lastCall.op = "load_config" /\ lastCall.rec.config.regex.literal
       /\ Invalid(lastCall.rec.config)) =>
          /\ lastCall.raised
          /\ lastCall.rec.exc = "ConfigurationError"
          /\ rpc = "unborn" /\ ppc = "unborn" /\ main = "exit"

\* ----------------------------------------------------------------- C31
\* The bytes of all connections, one after the other
RECURSIVE Flatten(_)
Flatten(epochs) ==
    IF epochs = <<>> THEN <<>> ELSE Head(epochs) \o Flatten(Tail(epochs))

\* C31: in echo mode the bytes on stdout are exactly the messages
\* readline() has returned, in order, each written as it was read; nothing
\* is queued, buffered or saved; echo makes one connection only, and the
\* turn of the loop in which readline() fails ends echo with the client
\* closed and nothing more written.
C31_EchoPassThrough ==
    /\ [](/\ stdout = Flatten(received)
          /\ Len(received) <= 1
          /\ queue = <<>> /\ buf = <<>> /\ files = <<>> /\ disk = {})
    /\ [][(readsInEpoch' # readsInEpoch /\ readsInEpoch' > 0) =>
            /\ stdout' = stdout \o data'
            /\ rpc' = "loop"]_vars
    /\ [][(rpc = "loop" /\ rpc' # rpc) =>
            /\ rpc' = "done"
            /\ sock' = "None" /\ ~fd'
            /\ stdout' = stdout]_vars

\* echo has written a message and returned when the device closed
C31_Witness ==
    /\ main = "echo" /\ rpc = "done"
    /\ Len(stdout) >= 2 /\ stdout[Len(stdout)] = NL
    /\ ~shutdown

\* ----------------------------------------------------------------- C32
\* C32: process_data returns only from the test of its loop, having seen
\* the flag set and then the queue empty; while the flag is not set it
\* has not returned, and a get that times out on an empty queue sends it
\* back to the test of the loop.
C32_LeavesOnlyWhenDrained ==
    /\ [][(ppc' = "done" /\ ppc # "done") =>
            (ppc = "empty" /\ shutdown /\ queue = <<>>)]_vars
    /\ [][(ppc = "get" /\ ppc' # ppc /\ queue = <<>>) =>
            ppc' \in {"loop", "killed"}]_vars
    /\ [](ppc = "done" => shutdown)
    /\ [](ppc = "empty" => shutdown)

\* the processor has returned on an empty queue after handling a record
C32_Witness ==
    /\ ppc = "done" /\ shutdown /\ queue = <<>>
    /\ Len(dequeued) >= 1 /\ nsig = 1

\* ----------------------------------------------------------------- C33
\* C33: a readline of the reader that does not return a line enqueues
\* nothing and enters connect(), which drops the connection that failed;
\* from inside connect() the reader comes back to its loop only with a new
\* connection on which nothing was read yet, or with the flag set, and a
\* readline is started only from the loop on an established connection.
C33_ReconnectBeforeNextRead ==
    /\ [][(rpc = "readline" /\ rpc' \notin {"readline", "put", "killed"}) =>
            /\ rpc' = "conn_check"
            /\ sock' = "created" /\ ~fd' /\ inbuf' = <<>>
            /\ queue' = queue /\ enqueued' = enqueued
            /\ received' = received]_vars
    /\ [][(rpc \in {"conn_check", "conn_try"} /\ rpc' = "loop") =>
            \/ shutdown /\ ~fd'
            \/ /\ rpc = "conn_try" /\ sock' = "connected" /\ fd'
               /\ readsInEpoch' = 0 /\ Len(received') >= Len(received)
               /\ received'[Len(received')] = <<>>]_vars
    /\ [][(rpc' = "readline" /\ rpc # "readline") =>
            (rpc = "loop" /\ ~shutdown /\ fd /\ sock = "connected")]_vars
    /\ [](rpc \in {"readline", "put"} => fd /\ sock = "connected")

\* a line was read on the connection made after a failed read
C33_Witness ==
    /\ rpc = "put" /\ Len(received) = 2 /\ readsInEpoch = 1
    /\ received[1] # <<>> /\ received[2] = data

\* ----------------------------------------------------------------- C34
\* C34: with pack_length >= 1, after every call of Parser.write, returned
\* or raised, the "time" list of every bucket is shorter than pack_length,
\* so the next put never meets a full bucket; the put of a call fills at
\* most one bucket, and that bucket is empty when the call ends.
C34_NoBucketLeftFull ==
    /\ pack_length >= 1
    /\ \A g \in DOMAIN buf : TimeLen(buf[g]) < pack_length
    /\ Buffer_full(buf) = {}
    /\ (lastCall.op = "write") =>
          /\ Cardinality(lastCall.rec.full) <= 1
          /\ \A g \in lastCall.rec.full : buf[g] = <<>>

\* a failed save has emptied the one full bucket while another group keeps
\* a partial one
C34_Witness ==
    /\ lastCall.op = "write" /\ lastCall.raised /\ lastCall.rec.cause = "save"
    /\ Cardinality(lastCall.rec.full) = 1
    /\ \E g \in DOMAIN buf : TimeLen(buf[g]) = pack_length - 1 /\ TimeLen(buf[g]) > 0

\* ----------------------------------------------------------------- C35
\* C35: after any sequence of accepted puts, refused puts and clears, the
\* lists of one bucket all have the same length.
C35_BucketListsAligned ==
    \A g \in DOMAIN buf :
        \A v \in DOMAIN buf[g] : \A w \in DOMAIN buf[g] :
            Len(buf[g][v]) = Len(buf[g][w])

\* a bucket of three variables holds two values each, after it had been
\* cleared once and a put on it has just been refused
C35_Witness ==
    /\ lastCall.op = "put" /\ lastCall.raised
    /\ \E g \in DOMAIN buf :
          /\ g = group_value(lastCall.rec)
          /\ Cardinality(DOMAIN buf[g]) = 3
          /\ \A v \in DOMAIN buf[g] : Len(buf[g][v]) = 2
          /\ accepted[g].clears >= 1

\* ----------------------------------------------------------------- C36
\* C36: whenever the reader is inside readline its client holds the
\* connection a connect() has made; the reader is at the test of its loop
\* without a connection only with the flag set, and the flag, once set,
\* stays set.
C36_ReadOnlyWhenConnected ==
    /\ [](rpc = "readline" =>
            /\ sock = "connected" /\ fd
            /\ fresh \in {"True", "False"}
            /\ received # <<>>)
    /\ []((rpc = "loop" /\ ~(sock = "connected" /\ fd)) => shutdown)
    /\ [][shutdown => shutdown']_vars

\* connect() has returned without a connection after a failed read, and
\* the reader is at the test of its loop with the flag set
C36_Witness ==
    /\ rpc = "loop" /\ shutdown /\ ~fd /\ sock = "created"
    /\ Len(enqueued) >= 1 /\ nsig = 1 /\ ~fullHit

\* ----------------------------------------------------------------- C37
\* C37: the reader enqueues at most one record with the flag set; that
\* enqueue ends the iteration the reader was in, and from the test of its
\* loop with the flag set the reader goes nowhere but to its end.
C37_AtMostOneLateEnqueue ==
    /\ [](latePuts <= 1)
    /\ [](latePuts = 1 => (shutdown /\ rpc \in {"loop", "done", "killed"}))
    /\ [][(shutdown /\ enqueued' # enqueued) =>
            (rpc = "put" /\ latePuts = 0 /\ latePuts' = 1 /\ rpc' = "loop")]_vars
    /\ [][(shutdown /\ rpc = "loop" /\ rpc' # rpc) =>
            (rpc' \in {"done", "killed"} /\ enqueued' = enqueued)]_vars

\* the one late record is on the queue and the reader is back at the test
\* of its loop, which will end it
C37_Witness ==
    /\ latePuts = 1 /\ rpc = "loop" /\ shutdown
    /\ queue # <<>> /\ queue[Len(queue)] = enqueued[Len(enqueued)]
    /\ Len(enqueued) >= 2

\* ----------------------------------------------------------------- C38
\* The timestamp stands in some file of the directory, whole or partly
\* written
OnDisk(t) ==
    \E f \in disk :
        /\ "time" \in DOMAIN f.vectors
        /\ \E j \in 1..Len(f.vectors["time"]) : f.vectors["time"][j] = t

\* C38: when process_data has returned, no record left in a bucket stands
\* in any file; every batch ever saved has pack_length records; the files
\* change only in the step that puts a record into a bucket holding
\* pack_length - 1, and the return of process_data writes nothing.
C38_NoPartialFlush ==
    /\ [](ppc = "done" =>
            \A g \in DOMAIN buf : \A i \in 1..TimeLen(buf[g]) :
                /\ Written(buf[g]["time"][i]) = {}
                /\ ~OnDisk(buf[g]["time"][i]))
    /\ [](\A k \in 1..Len(files) : Len(files[k].vectors["time"]) = pack_length)
    /\ [](\A f \in disk : Len(f.vectors["time"]) = pack_length)
    /\ [][(files' # files \/ disk' # disk) =>
            /\ ppc = "parse" /\ ~extract_raises(item)
            /\ TimeLen(BucketOf(buf, extract(item))) = pack_length - 1]_vars
    /\ [][(ppc' = "done" /\ ppc # "done") =>
            (files' = files /\ disk' = disk /\ buf' = buf)]_vars

\* process_data has returned after one save, with a later record left in
\* a bucket
C38_Witness ==
    /\ ppc = "done" /\ shutdown /\ queue = <<>>
    /\ Len(files) = 1 /\ disk # {}
    /\ \E g \in DOMAIN buf : TimeLen(buf[g]) = 1 /\ TimeLen(buf[g]) < pack_length

\* ----------------------------------------------------------------- C39
\* d is a run of the bytes s that starts at the beginning of s or right
\* after a delimiter
IsSegment(d, s) ==
    \E a \in 1..Len(s) :
        /\ a + Len(d) - 1 <= Len(s)
        /\ SubSeq(s, a, a + Len(d) - 1) = d
        /\ (a = 1 \/ s[a - 1] = NL)

\* C39: the client holds received bytes only while it holds a connection;
\* a connection starts with nothing buffered and dropping it discards what
\* was buffered; bytes are added and taken on one and the same connection;
\* so every enqueued record is a run of the bytes read on one connection.
C39_OneEpochPerRecord ==
    /\ [](sock # "connected" => inbuf = <<>>)
    /\ [][(sock' = "connected" /\ sock # "connected") =>
            /\ inbuf' = <<>> /\ readsInEpoch' = 0
            /\ received'[Len(received')] = <<>>]_vars
    /\ [][(inbuf' # inbuf /\ inbuf' # <<>>) =>
            /\ sock = "connected" /\ sock' = "connected"
            /\ Len(received') = Len(received)
            /\ \/ \E b \in Bytes : inbuf' = Append(inbuf, b)
               \/ inbuf = data' \o inbuf']_vars
    /\ [](\A i \in 1..Len(enqueued) :
             /\ enqueued[i].data # <<>>
             /\ \E e \in 1..Len(received) : IsSegment(enqueued[i].data, received[e]))

\* a byte of a partial message was dropped with its connection, and the
\* first record of the next connection holds only what was read on it
C39_Witness ==
    /\ Len(received) >= 2 /\ enqueued # <<>>
    /\ firstOfEpoch[Len(enqueued)]
    /\ enqueued[Len(enqueued)].data = received[Len(received)]
    /\ MaxBytes - budget > Len(Flatten(received)) + Len(inbuf)

====
